---- MODULE Spec2Model ----
(***************************************************************************)
(* A model of Unity2Godot.py, class UnityToGodotConverter.                 *)
(*                                                                         *)
(* Text is modelled as a sequence of tokens.  A token is either a piece of *)
(* a name ("a", "b") or a dot-suffix (".mat", ".tres", ...): a file name   *)
(* "a.mat" is <<"a", ".mat">>, the hidden file ".mat" is <<".mat">>.       *)
(* str.endswith, os.path.splitext and str.replace are computed on these    *)
(* sequences the way Python computes them on the characters.               *)
(***************************************************************************)
EXTENDS Integers, Sequences, FiniteSets, TLC

\* ------------------------------------------------------------------ bounds

\* Largest number of files in the source project tree (Spec).
MaxFiles == 3
\* Largest number of components on the object under conversion (CompSpec).
MaxComps == 2
\* Largest number of source assets, and longest document text (RwSpec).
MaxRwFiles == 2
MaxTextLen == 3
\* How many times the rewriter is applied to the same text (RwSpec).
MaxPasses == 2

\* ------------------------------------------------------- strings and paths

\* str.endswith(ext) for a dot-suffix ext: the dot-suffix is the last token.
EndsWith(name, ext) == Len(name) > 0 /\ name[Len(name)] = ext

IsDotToken(t) == t \in {".prefab", ".mat", ".fbx", ".obj", ".anim", ".cs", ".unity",
                        ".tres", ".mesh", ".gd", ".tscn", ".png"}

\* Index of the token that starts with the last dot of the name, 0 if none.
LastDot(name) ==
    LET S == {i \in 1..Len(name) : IsDotToken(name[i])}
    IN IF S = {} THEN 0 ELSE CHOOSE i \in S : \A j \in S : j <= i

\* os.path.splitext(name)[0]: everything before the last dot; a dot that leads
\* the name is not an extension separator, so ".mat" has the root ".mat".
SplitextRoot(name) ==
    IF LastDot(name) <= 1 THEN name ELSE SubSeq(name, 1, LastDot(name) - 1)

\* str.replace(old, new): every non-overlapping occurrence, left to right.
RECURSIVE Replace(_, _, _)
Replace(s, old, new) ==
    IF Len(old) = 0 \/ Len(s) < Len(old) THEN s
    ELSE IF SubSeq(s, 1, Len(old)) = old
         THEN new \o Replace(SubSeq(s, Len(old) + 1, Len(s)), old, new)
         ELSE <<Head(s)>> \o Replace(Tail(s), old, new)

\* Whether old occurs in s at index i.
OccursAt(s, old, i) ==
    /\ i >= 1
    /\ i + Len(old) - 1 <= Len(s)
    /\ SubSeq(s, i, i + Len(old) - 1) = old

Occurs(s, old) == \E i \in 1..Len(s) : OccursAt(s, old, i)

\* A path is a directory (a sequence of directory names below the project
\* root) and a file name (a sequence of tokens).  os.path.join builds it.
Path(dir, file) == [dir |-> dir, file |-> file]

\* The value of a lookup that misses (None) and of an absent path field.
NoPath == Path(<<>>, <<>>)

\* os.path.basename
Basename(p) == p.file

\* The text of a path as it is written into a document.
RECURSIVE JoinDirs(_)
JoinDirs(dir) == IF dir = <<>> THEN <<>> ELSE <<Head(dir), "/">> \o JoinDirs(Tail(dir))

PathText(p) == JoinDirs(p.dir) \o p.file

\* ---------------------------------------------------------- python dicts

\* A dict is a sequence of [key, val] in insertion order; assigning to a key
\* that is present keeps its place and overwrites its value.
DictHas(d, k) == \E i \in 1..Len(d) : d[i].key = k

DictGet(d, k, default) ==
    IF DictHas(d, k) THEN d[CHOOSE i \in 1..Len(d) : d[i].key = k].val ELSE default

DictSet(d, k, v) ==
    IF DictHas(d, k)
    THEN [i \in 1..Len(d) |-> IF d[i].key = k THEN [key |-> k, val |-> v] ELSE d[i]]
    ELSE Append(d, [key |-> k, val |-> v])

DictKeys(d) == {d[i].key : i \in 1..Len(d)}

DictVals(d) == {d[i].val : i \in 1..Len(d)}

\* ------------------------------------------------- target nodes (godot_parser)

\* Node(type, name=...): a target node with no property and no child yet; the
\* name is text.
Node(type, name) == [type |-> type, name |-> name, props |-> <<>>, children |-> <<>>]

\* Property(kind, literal): a typed literal; the literal is text.
Property(kind, value) == [kind |-> kind, value |-> value]

\* node.add_property(name, property): appended to the ordered property list.
add_property(node, name, property) ==
    [node EXCEPT !.props = Append(@, [name |-> name, kind |-> property.kind,
                                       value |-> property.value])]

\* node.add_child(child): appended to the ordered child list.
add_child(node, child) == [node EXCEPT !.children = Append(@, child)]

\* f'ExtResource("{path}")'
ExtResourceText(p) == <<"ExtResource(\"">> \o PathText(p) \o <<"\")">>

\* ------------------------------------------------------ source components

\* The value of a scalar field the component does not carry.
None == "None"

\* component.get(field, default) on a scalar field.
Get(component, field, default) ==
    IF component[field] = None THEN default ELSE component[field]

\* A component is a type tag and a field bag.  LightType is the light-kind
\* field of a Light component's bag; Mesh, Script and the entries of Materials
\* are the 'Path' of the asset the component references (NoPath: none given).
Component(tag) ==
    [Type |-> tag, LightType |-> None, IsKinematic |-> FALSE, UseGravity |-> TRUE,
     Mass |-> None, Mesh |-> NoPath, Materials |-> <<>>, Script |-> NoPath,
     Size |-> <<>>, Radius |-> None, Height |-> None]

\* self.unity_types_to_godot
unity_types_to_godot ==
    [t \in {"Transform", "MeshRenderer", "Camera", "Light", "Rigidbody", "BoxCollider",
            "SphereCollider", "CapsuleCollider", "Canvas", "RectTransform", "Image",
            "Text", "Button", "ParticleSystem"} |->
        CASE t = "Transform" -> "Node3D"
          [] t = "MeshRenderer" -> "MeshInstance3D"
          [] t = "Camera" -> "Camera3D"
          [] t = "Light" -> "Light3D"
          [] t = "Rigidbody" -> "RigidBody3D"
          [] t \in {"BoxCollider", "SphereCollider", "CapsuleCollider"} -> "CollisionShape3D"
          [] t = "Canvas" -> "CanvasLayer"
          [] t = "RectTransform" -> "Control"
          [] t = "Image" -> "TextureRect"
          [] t = "Text" -> "Label"
          [] t = "Button" -> "Button"
          [] t = "ParticleSystem" -> "GPUParticles3D"]

\* determine_node_type, with the first-match scan mutated to a last-match scan.
RECURSIVE determine_node_type_last(_)
determine_node_type_last(components) ==
    IF components = <<>> THEN "Node3D"
    ELSE IF components[Len(components)].Type \in DOMAIN unity_types_to_godot
         THEN unity_types_to_godot[components[Len(components)].Type]
         ELSE determine_node_type_last(SubSeq(components, 1, Len(components) - 1))

\* determine_node_type: the mapping of the first component whose tag is a key
\* of the table, "Node3D" when the loop ends without one.
RECURSIVE determine_node_type(_)
determine_node_type(components) ==
    IF components = <<>> THEN "Node3D"
    ELSE IF Head(components).Type \in DOMAIN unity_types_to_godot
         THEN unity_types_to_godot[Head(components).Type]
         ELSE determine_node_type(Tail(components))

\* convert_mesh_filter with the check of the lookup's result left out: the
\* property is written for every path that is given.
convert_mesh_filter_unchecked(component, node, amap) ==
    LET mesh_path == component.Mesh
        godot_mesh_path == DictGet(amap, mesh_path, NoPath)
    IN IF mesh_path # NoPath
       THEN add_property(node, <<"mesh">>,
                         Property("ExtResource", ExtResourceText(godot_mesh_path)))
       ELSE node

\* convert_mesh_filter: the lookup is made for a path that is given, and the
\* property is added for a lookup that hits.
convert_mesh_filter(component, node, amap) ==
    LET mesh_path == component.Mesh
        godot_mesh_path == DictGet(amap, mesh_path, NoPath)
    IN IF mesh_path # NoPath /\ godot_mesh_path # NoPath
       THEN add_property(node, <<"mesh">>,
                         Property("ExtResource", ExtResourceText(godot_mesh_path)))
       ELSE node

\* The decimal text of a small index, as the f-string writes it.
IndexText(i) == CASE i = 0 -> "0" [] i = 1 -> "1" [] i = 2 -> "2" [] OTHER -> "n"

\* convert_mesh_renderer: one lookup per entry of Materials, numbered from 0.
RECURSIVE MeshRendererFrom(_, _, _, _)
MeshRendererFrom(materials, i, node, amap) ==
    IF i > Len(materials) THEN node
    ELSE LET material_path == materials[i]
             godot_material_path == DictGet(amap, material_path, NoPath)
         IN MeshRendererFrom(materials, i + 1,
                IF material_path # NoPath /\ godot_material_path # NoPath
                THEN add_property(node, <<"material_", IndexText(i - 1)>>,
                         Property("ExtResource", ExtResourceText(godot_material_path)))
                ELSE node,
                amap)

convert_mesh_renderer(component, node, amap) ==
    MeshRendererFrom(component.Materials, 1, node, amap)

\* convert_script_component
convert_script_component(component, node, amap) ==
    LET script_path == component.Script
        godot_script_path == DictGet(amap, script_path, NoPath)
    IN IF script_path # NoPath /\ godot_script_path # NoPath
       THEN add_property(node, <<"script">>,
                         Property("ExtResource", ExtResourceText(godot_script_path)))
       ELSE node

\* convert_camera (the component universe carries no camera field: defaults).
convert_camera(component, node) ==
    add_property(
      add_property(
        add_property(node, <<"fov">>, Property("float", <<"60">>)),
        <<"near">>, Property("float", <<"0.3">>)),
      <<"far">>, Property("float", <<"1000">>))

\* convert_light reads the key 'Type' of the component for the light kind: the
\* key that carries the component's tag.
convert_light(component, node) ==
    LET light_type == Get(component, "Type", "Point")
        typed == [node EXCEPT !.type =
                     IF light_type = "Directional" THEN "DirectionalLight3D"
                     ELSE IF light_type = "Spot" THEN "SpotLight3D"
                     ELSE "OmniLight3D"]
    IN add_property(
         add_property(typed, <<"light_color">>, Property("Color", <<"Color(1, 1, 1, 1)">>)),
         <<"light_energy">>, Property("float", <<"1">>))

\* convert_rigidbody
convert_rigidbody(component, node) ==
    LET withMass == add_property(node, <<"mass">>,
                        Property("float", <<Get(component, "Mass", "1")>>))
        withGravity == add_property(withMass, <<"gravity_scale">>,
                        Property("float", IF component.UseGravity THEN <<"1.0">> ELSE <<"0.0">>))
    IN IF component.IsKinematic
       THEN [withGravity EXCEPT !.type = "AnimatableBody3D"]
       ELSE withGravity

\* The shape literal of convert_collider: f"{shape}.new({shape_params})".
ShapeLiteral(component) ==
    LET shape_type == component.Type
    IN IF shape_type = "BoxCollider"
       THEN LET size == IF component.Size = <<>> THEN <<"1", "1", "1">> ELSE component.Size
            IN <<"BoxShape3D", ".new(", "size = Vector3(", size[1], ", ", size[2], ", ",
                 size[3], ")", ")">>
       ELSE IF shape_type = "SphereCollider"
       THEN <<"SphereShape3D", ".new(", "radius = ", Get(component, "Radius", "0.5"), ")">>
       ELSE <<"CapsuleShape3D", ".new(", "radius = ", Get(component, "Radius", "0.5"),
              ", height = ", Get(component, "Height", "2"), ")">>

\* convert_collider with the shape written on the object's node, not on a child.
convert_collider_inline(component, node) ==
    add_property(node, <<"shape">>, Property("Shape3D", ShapeLiteral(component)))

\* convert_collider: a CollisionShape3D child named Collider is attached to the
\* node; the shape property is added to that child (the same object).
convert_collider(component, node) ==
    add_child(node,
              add_property(Node("CollisionShape3D", <<"Collider">>), <<"shape">>,
                           Property("Shape3D", ShapeLiteral(component))))

\* convert_particle_system
convert_particle_system(component, node) ==
    add_property(
      add_property(
        add_property(
          add_property(node, <<"amount">>, Property("int", <<"1000">>)),
          <<"lifetime">>, Property("float", <<"5">>)),
        <<"explosiveness">>, Property("float", <<"0.0">>)),
      <<"randomness">>, Property("float", <<"0.0">>))

\* convert_canvas (no CanvasScaler in the component universe)
convert_canvas(component, node) ==
    add_property(node, <<"layer">>, Property("int", <<"0">>))

\* convert_rect_transform (default anchors)
convert_rect_transform(component, node) ==
    add_property(
      add_property(
        add_property(
          add_property(node, <<"anchor_left">>, Property("float", <<"0">>)),
          <<"anchor_top">>, Property("float", <<"0">>)),
        <<"anchor_right">>, Property("float", <<"1">>)),
      <<"anchor_bottom">>, Property("float", <<"1">>))

\* convert_component: the if/elif chain on the component's tag; a tag with no
\* branch is printed as unhandled and leaves the node as it is.
convert_component(component, node, amap) ==
    LET component_type == component.Type
    IN IF component_type = "MeshFilter" THEN convert_mesh_filter(component, node, amap)
       ELSE IF component_type = "MeshRenderer" THEN convert_mesh_renderer(component, node, amap)
       ELSE IF component_type = "Camera" THEN convert_camera(component, node)
       ELSE IF component_type = "Light" THEN convert_light(component, node)
       ELSE IF component_type = "Rigidbody" THEN convert_rigidbody(component, node)
       ELSE IF component_type \in {"BoxCollider", "SphereCollider", "CapsuleCollider"}
            THEN convert_collider(component, node)
       ELSE IF component_type = "ParticleSystem" THEN convert_particle_system(component, node)
       ELSE IF component_type = "Canvas" THEN convert_canvas(component, node)
       ELSE IF component_type = "RectTransform" THEN convert_rect_transform(component, node)
       ELSE IF component_type = "MonoBehaviour"
            THEN convert_script_component(component, node, amap)
       ELSE node


\* --------------------------------------------------------- the conversion run

\* def convert_transform(self, unity_transform): one parameter besides self.
ConvertTransformParams == 1
\* self.convert_transform(game_object, node): two arguments at the call.
ConvertTransformArgs == 2

\* Every component of the list through convert_component, in order.
RECURSIVE DispatchAll(_, _, _)
DispatchAll(components, node, amap) ==
    IF components = <<>> THEN node
    ELSE DispatchAll(Tail(components), convert_component(Head(components), node, amap), amap)

\* convert_game_object(game_object, parent_node): the parent node afterwards,
\* or the exception.  The call of convert_transform passes an argument more
\* than the method takes: Python raises TypeError there, before any
\* component is dispatched and before the node is attached.
RECURSIVE convert_game_object(_, _, _)
RECURSIVE ConvertChildren(_, _, _)
convert_game_object(game_object, parent_node, amap) ==
    LET node_type == determine_node_type(game_object.Components)
        node == Node(node_type, game_object.Name)
    IN IF ConvertTransformArgs # ConvertTransformParams
       THEN [raised |-> TRUE, parent |-> parent_node]
       ELSE LET dispatched == DispatchAll(game_object.Components, node, amap)
                sub == ConvertChildren(game_object.Children, dispatched, amap)
            IN [raised |-> sub.raised, parent |-> add_child(parent_node, sub.parent)]

\* for child in ...: self.convert_game_object(child, node)
ConvertChildren(objects, node, amap) ==
    IF objects = <<>> THEN [raised |-> FALSE, parent |-> node]
    ELSE LET first == convert_game_object(Head(objects), node, amap)
         IN IF first.raised THEN first
            ELSE ConvertChildren(Tail(objects), first.parent, amap)

\* The text godot_parser writes for a node tree: type, name and the property
\* literals of each node, depth first.
RECURSIVE NodeText(_)
RECURSIVE PropsText(_)
RECURSIVE NodesText(_)
PropsText(props) ==
    IF props = <<>> THEN <<>> ELSE Head(props).value \o PropsText(Tail(props))

NodesText(nodes) ==
    IF nodes = <<>> THEN <<>> ELSE NodeText(Head(nodes)) \o NodesText(Tail(nodes))

NodeText(node) == <<node.type>> \o node.name \o PropsText(node.props) \o NodesText(node.children)

\* update_file_references, the loop over self.asset_map.items(): one
\* str.replace per entry, in the table's order, each on the result of the last.
RECURSIVE update_file_references(_, _)
update_file_references(content, amap) ==
    IF amap = <<>> THEN content
    ELSE update_file_references(
             Replace(content, Basename(Head(amap).key), Basename(Head(amap).val)),
             Tail(amap))

\* ------------------------------------------------------------ source projects

Dirs == {<<"Assets">>, <<"Other">>}

Child == [Name |-> <<"Child">>, Components |-> <<>>, Children |-> <<>>]

Parent == [Name |-> <<"Parent">>, Components |-> <<Component("BoxCollider")>>,
           Children |-> <<Child>>]

SourceFile(path, text, objs) == [path |-> path, text |-> text, objs |-> objs]

\* The files a source project may hold: materials a/b (their text is the
\* texture file name they reference), meshes of both extensions, an
\* animation, a script, a prefab, scenes with and without objects, and a file
\* of no recognised extension; each in either directory.
SourceFiles ==
    {SourceFile(Path(d, <<n, ".mat">>), t, <<>>) :
        d \in Dirs, n \in {"a", "b"}, t \in {<<"a", ".fbx", ".png">>}}
    \cup {SourceFile(Path(d, <<"a", e>>), <<>>, <<>>) :
        d \in Dirs, e \in {".fbx", ".obj", ".anim", ".png"}}
    \cup {SourceFile(Path(d, <<"a", ".cs">>), <<"class">>, <<>>) : d \in Dirs}
    \cup {SourceFile(Path(d, <<"a", ".prefab">>), <<>>, <<Parent>>) : d \in Dirs}
    \cup {SourceFile(Path(d, <<"a", ".unity">>), <<>>, o) :
        d \in Dirs, o \in {<<>>, <<Parent>>}}

RECURSIVE SubsetsUpTo(_, _)
SubsetsUpTo(S, k) ==
    IF k = 0 THEN {{}}
    ELSE LET P == SubsetsUpTo(S, k - 1) IN P \cup {p \cup {x} : p \in P, x \in S}

\* A project holds one file per path.
IsProject(F) == \A f, g \in F : f.path = g.path => f = g

\* ------------------------------------------------------------------- state

VARIABLES
    fs,          \* the source project: the files under unity_project_path
    pc,          \* where convert_project stands
    visited,     \* paths the current os.walk loop has been through
    idx,         \* position of the current loop over an inventory table
    prefabs, materials, meshes, animations, scripts,  \* the inventory
    asset_map,   \* self.asset_map
    out,         \* the files under godot_project_path
    rewritten,   \* the output files update_file_references has rewritten
    started,     \* history: the top-level calls of convert_game_object the run made
    game_object, \* CompSpec: the source object converted
    node,        \* CompSpec: the target node
    prev,        \* CompSpec: the node before the last convert_component
    ci,          \* CompSpec: components dispatched so far
    content,     \* RwSpec: the document text
    content0,    \* RwSpec: the text before the first pass
    content1,    \* RwSpec: the text after the first pass
    passes       \* RwSpec: applications of update_file_references so far

runVars == <<fs, pc, visited, idx, prefabs, materials, meshes, animations, scripts,
             asset_map, out, rewritten, started>>
compVars == <<game_object, node, prev, ci>>
rwVars == <<content, content0, content1, passes>>
vars == <<runVars, compVars, rwVars>>

\* The source file at a path of the inventory.
SourceAt(path) == CHOOSE f \in fs : f.path = path

\* open(path, 'w') ... write: the file is created or overwritten.
WriteFile(files, path, text, root) ==
    {d \in files : d.path # path}
        \cup {[path |-> path, text |-> text, emitted |-> text, root |-> root]}

NoNode == Node("", <<>>)

\* The order of the stages in convert_project and convert_assets, swapped so
\* that the scenes are converted before the assets.
StageAfter_ScenesFirst(stage) ==
    CASE stage = "analyze" -> "scenes"
      [] stage = "scenes" -> "materials"
      [] stage = "materials" -> "meshes"
      [] stage = "meshes" -> "animations"
      [] stage = "animations" -> "scripts"
      [] stage = "scripts" -> "prefabs"
      [] stage = "prefabs" -> "references"
      [] stage = "references" -> "done"

\* convert_project and convert_assets: the call that follows each call.
StageAfter(stage) ==
    CASE stage = "analyze" -> "materials"
      [] stage = "materials" -> "meshes"
      [] stage = "meshes" -> "animations"
      [] stage = "animations" -> "scripts"
      [] stage = "scripts" -> "scenes"
      [] stage = "scenes" -> "prefabs"
      [] stage = "prefabs" -> "references"
      [] stage = "references" -> "done"


\* ----------------------------------------------------- actions of the run

\* analyze_project_structure with the mesh branch filing the file as a
\* material as well: one source file in two inventory tables.
AnalyzeFile_MeshAlsoMaterial(f) ==
    /\ pc = "analyze"
    /\ f \in fs
    /\ f.path \notin visited
    /\ visited' = visited \cup {f.path}
    /\ LET file == Basename(f.path)
           name == SplitextRoot(file)
       IN IF EndsWith(file, ".prefab")
          THEN /\ prefabs' = DictSet(prefabs, name, f.path)
               /\ UNCHANGED <<materials, meshes, animations, scripts>>
          ELSE IF EndsWith(file, ".mat")
          THEN /\ materials' = DictSet(materials, name, f.path)
               /\ UNCHANGED <<prefabs, meshes, animations, scripts>>
          ELSE IF EndsWith(file, ".fbx") \/ EndsWith(file, ".obj")
          THEN /\ meshes' = DictSet(meshes, name, f.path)
               /\ materials' = DictSet(materials, name, f.path)
               /\ UNCHANGED <<prefabs, animations, scripts>>
          ELSE IF EndsWith(file, ".anim")
          THEN /\ animations' = DictSet(animations, name, f.path)
               /\ UNCHANGED <<prefabs, materials, meshes, scripts>>
          ELSE IF EndsWith(file, ".cs")
          THEN /\ scripts' = DictSet(scripts, name, f.path)
               /\ UNCHANGED <<prefabs, materials, meshes, animations>>
          ELSE UNCHANGED <<prefabs, materials, meshes, animations, scripts>>
    /\ UNCHANGED <<fs, pc, idx, asset_map, out, rewritten, started, compVars, rwVars>>

\* analyze_project_structure, one file of the walk: the if/elif chain on the
\* file's extension, then analyze_<kind>: table[bare name] = path.
AnalyzeFile(f) ==
    /\ pc = "analyze"
    /\ f \in fs
    /\ f.path \notin visited
    /\ visited' = visited \cup {f.path}
    /\ LET file == Basename(f.path)
           name == SplitextRoot(file)
       IN IF EndsWith(file, ".prefab")
          THEN /\ prefabs' = DictSet(prefabs, name, f.path)
               /\ UNCHANGED <<materials, meshes, animations, scripts>>
          ELSE IF EndsWith(file, ".mat")
          THEN /\ materials' = DictSet(materials, name, f.path)
               /\ UNCHANGED <<prefabs, meshes, animations, scripts>>
          ELSE IF EndsWith(file, ".fbx") \/ EndsWith(file, ".obj")
          THEN /\ meshes' = DictSet(meshes, name, f.path)
               /\ UNCHANGED <<prefabs, materials, animations, scripts>>
          ELSE IF EndsWith(file, ".anim")
          THEN /\ animations' = DictSet(animations, name, f.path)
               /\ UNCHANGED <<prefabs, materials, meshes, scripts>>
          ELSE IF EndsWith(file, ".cs")
          THEN /\ scripts' = DictSet(scripts, name, f.path)
               /\ UNCHANGED <<prefabs, materials, meshes, animations>>
          ELSE UNCHANGED <<prefabs, materials, meshes, animations, scripts>>
    /\ UNCHANGED <<fs, pc, idx, asset_map, out, rewritten, started, compVars, rwVars>>

\* convert_texture: the image is saved as textures/<basename>.
convert_texture(unity_texture_file) == Path(<<"textures">>, unity_texture_file)

\* convert_materials, one iteration: the material document is written to
\* materials/<name>.tres and the table entry is set.  The source material's
\* text is the file name of its MainTex texture: convert_texture_map saves the
\* texture and adds the albedo_texture property that references it.
ConvertMaterial ==
    /\ pc = "materials"
    /\ idx <= Len(materials)
    /\ LET material_name == materials[idx].key
           material_path == materials[idx].val
           godot_material_path == Path(<<"materials">>, material_name \o <<".tres">>)
           godot_texture_path == convert_texture(SourceAt(material_path).text)
           material == add_property(Node("SpatialMaterial", <<"material">>),
                                    <<"albedo_texture">>,
                                    Property("ExtResource", ExtResourceText(godot_texture_path)))
       IN /\ out' = WriteFile(WriteFile(out, godot_texture_path, <<"image">>, NoNode),
                              godot_material_path, NodeText(material), material)
          /\ asset_map' = DictSet(asset_map, material_path, godot_material_path)
    /\ idx' = idx + 1
    /\ UNCHANGED <<fs, pc, visited, prefabs, materials, meshes, animations, scripts,
                   rewritten, started, compVars, rwVars>>

\* convert_meshes with the output named after the source file's full name,
\* extension included, instead of the bare name.
ConvertMesh_FullName ==
    /\ pc = "meshes"
    /\ idx <= Len(meshes)
    /\ LET mesh_path == meshes[idx].val
           godot_mesh_path == Path(<<"meshes">>, Basename(mesh_path) \o <<".mesh">>)
       IN /\ out' = WriteFile(out, godot_mesh_path, <<"cube">>, NoNode)
          /\ asset_map' = DictSet(asset_map, mesh_path, godot_mesh_path)
    /\ idx' = idx + 1
    /\ UNCHANGED <<fs, pc, visited, prefabs, materials, meshes, animations, scripts,
                   rewritten, started, compVars, rwVars>>

\* convert_meshes, one iteration: the fallback cube goes to meshes/<name>.mesh.
ConvertMesh ==
    /\ pc = "meshes"
    /\ idx <= Len(meshes)
    /\ LET mesh_name == meshes[idx].key
           mesh_path == meshes[idx].val
           godot_mesh_path == Path(<<"meshes">>, mesh_name \o <<".mesh">>)
       IN /\ out' = WriteFile(out, godot_mesh_path, <<"cube">>, NoNode)
          /\ asset_map' = DictSet(asset_map, mesh_path, godot_mesh_path)
    /\ idx' = idx + 1
    /\ UNCHANGED <<fs, pc, visited, prefabs, materials, meshes, animations, scripts,
                   rewritten, started, compVars, rwVars>>

\* convert_animations, one iteration: animations/<name>.anim.
ConvertAnimation ==
    /\ pc = "animations"
    /\ idx <= Len(animations)
    /\ LET anim_name == animations[idx].key
           anim_path == animations[idx].val
           godot_anim_path == Path(<<"animations">>, anim_name \o <<".anim">>)
           animation == Node("Animation", <<"animation">>)
       IN /\ out' = WriteFile(out, godot_anim_path, NodeText(animation), animation)
          /\ asset_map' = DictSet(asset_map, anim_path, godot_anim_path)
    /\ idx' = idx + 1
    /\ UNCHANGED <<fs, pc, visited, prefabs, materials, meshes, animations, scripts,
                   rewritten, started, compVars, rwVars>>

\* convert_scripts, one iteration: the stub scripts/<name>.gd, whose text names
\* the source file ("# Converted from <basename>") and quotes its content.
ConvertScript ==
    /\ pc = "scripts"
    /\ idx <= Len(scripts)
    /\ LET script_name == scripts[idx].key
           script_path == scripts[idx].val
           godot_script_path == Path(<<"scripts">>, script_name \o <<".gd">>)
       IN /\ out' = WriteFile(out, godot_script_path,
                              <<"# Converted from ">> \o Basename(script_path)
                                  \o <<"extends Node">> \o SourceAt(script_path).text,
                              NoNode)
          /\ asset_map' = DictSet(asset_map, script_path, godot_script_path)
    /\ idx' = idx + 1
    /\ UNCHANGED <<fs, pc, visited, prefabs, materials, meshes, animations, scripts,
                   rewritten, started, compVars, rwVars>>

\* The .unity files the walk of <project>/Assets finds.
ScenesFound == {f \in fs : Head(f.path.dir) = "Assets" /\ EndsWith(Basename(f.path), ".unity")}

\* scenes/<path relative to the project, ".unity" replaced by ".tscn">
GodotScenePath(f) ==
    Path(<<"scenes">> \o f.path.dir, Replace(Basename(f.path), <<".unity">>, <<".tscn">>))

\* convert_scenes, one .unity file, and convert_scene on it: the objects of
\* the scene are converted under the root node "Scene", then the scene is
\* written.  An exception in convert_game_object ends the run: nothing is
\* written for the scene.
ConvertScene(f) ==
    /\ pc = "scenes"
    /\ f \in ScenesFound
    /\ f.path \notin visited
    /\ visited' = visited \cup {f.path}
    /\ LET root_node == Node("Node3D", <<"Scene">>)
           result == ConvertChildren(f.objs, root_node, asset_map)
       IN /\ started' = IF f.objs = <<>> THEN started
                        ELSE Append(started, [source |-> f.path, game_object |-> Head(f.objs),
                                              assets |-> asset_map])
          /\ IF result.raised
             THEN /\ pc' = "error"
                  /\ out' = out
             ELSE /\ pc' = pc
                  /\ out' = WriteFile(out, GodotScenePath(f), NodeText(result.parent),
                                      result.parent)
    /\ UNCHANGED <<fs, idx, prefabs, materials, meshes, animations, scripts, asset_map,
                   rewritten, compVars, rwVars>>

\* convert_prefabs, one iteration: the prefab's object is converted under a
\* root node named after the prefab; the scene is written and the table entry
\* set after convert_game_object returns.
ConvertPrefab ==
    /\ pc = "prefabs"
    /\ idx <= Len(prefabs)
    /\ LET prefab_name == prefabs[idx].key
           prefab_path == prefabs[idx].val
           godot_scene_path == Path(<<"prefabs">>, prefab_name \o <<".tscn">>)
           root_node == Node("Node3D", prefab_name)
           prefab_data == Head(SourceAt(prefab_path).objs)
           result == convert_game_object(prefab_data, root_node, asset_map)
       IN /\ started' = Append(started, [source |-> prefab_path, game_object |-> prefab_data,
                                         assets |-> asset_map])
          /\ IF result.raised
             THEN /\ pc' = "error"
                  /\ UNCHANGED <<out, asset_map, idx>>
             ELSE /\ pc' = pc
                  /\ out' = WriteFile(out, godot_scene_path, NodeText(result.parent),
                                      result.parent)
                  /\ asset_map' = DictSet(asset_map, prefab_path, godot_scene_path)
                  /\ idx' = idx + 1
    /\ UNCHANGED <<fs, visited, prefabs, materials, meshes, animations, scripts,
                   rewritten, compVars, rwVars>>

\* The files update_asset_references hands to update_file_references.
IsDocument(d) == EndsWith(Basename(d.path), ".tscn") \/ EndsWith(Basename(d.path), ".tres")

\* update_asset_references, one .tscn or .tres file of the walk of the output
\* tree: update_file_references reads it, substitutes and writes it back.
UpdateFileReferences(d) ==
    /\ pc = "references"
    /\ d \in out
    /\ IsDocument(d)
    /\ d.path \notin rewritten
    /\ out' = (out \ {d}) \cup {[d EXCEPT !.text = update_file_references(d.text, asset_map)]}
    /\ rewritten' = rewritten \cup {d.path}
    /\ UNCHANGED <<fs, pc, visited, idx, prefabs, materials, meshes, animations, scripts,
                   asset_map, started, compVars, rwVars>>

\* Whether the loop of the stage has been through all it ranges over.
LoopDone ==
    CASE pc = "analyze" -> \A f \in fs : f.path \in visited
      [] pc = "materials" -> idx > Len(materials)
      [] pc = "meshes" -> idx > Len(meshes)
      [] pc = "animations" -> idx > Len(animations)
      [] pc = "scripts" -> idx > Len(scripts)
      [] pc = "scenes" -> \A f \in ScenesFound : f.path \in visited
      [] pc = "prefabs" -> idx > Len(prefabs)
      [] pc = "references" -> \A d \in out : IsDocument(d) => d.path \in rewritten
      [] OTHER -> FALSE

\* A stage returns and convert_project (or convert_assets) makes its next call.
Advance ==
    /\ LoopDone
    /\ pc' = StageAfter(pc)
    /\ idx' = 1
    /\ visited' = {}
    /\ UNCHANGED <<fs, prefabs, materials, meshes, animations, scripts, asset_map, out,
                   rewritten, started, compVars, rwVars>>

CompIdle ==
    /\ game_object = Child
    /\ node = NoNode
    /\ prev = NoNode
    /\ ci = 0

RwIdle ==
    /\ content = <<>>
    /\ content0 = <<>>
    /\ content1 = <<>>
    /\ passes = 0

RunStart ==
    /\ pc = "analyze"
    /\ visited = {}
    /\ idx = 1
    /\ prefabs = <<>>
    /\ materials = <<>>
    /\ meshes = <<>>
    /\ animations = <<>>
    /\ scripts = <<>>
    /\ asset_map = <<>>
    /\ out = {}
    /\ rewritten = {}
    /\ started = <<>>

\* __init__ and run(): empty tables, any source project within the bounds.
Init ==
    /\ fs \in {F \in SubsetsUpTo(SourceFiles, MaxFiles) : IsProject(F)}
    /\ RunStart
    /\ CompIdle
    /\ RwIdle

Next ==
    \/ \E f \in fs : AnalyzeFile(f)
    \/ ConvertMaterial
    \/ ConvertMesh
    \/ ConvertAnimation
    \/ ConvertScript
    \/ \E f \in fs : ConvertScene(f)
    \/ ConvertPrefab
    \/ \E d \in out : UpdateFileReferences(d)
    \/ Advance

Spec == Init /\ [][Next]_vars


\* ------------------------------------------- converting one object's components

MatA == Path(<<"Assets">>, <<"a", ".mat">>)
MatB == Path(<<"Assets">>, <<"b", ".mat">>)
MeshA == Path(<<"Assets">>, <<"a", ".fbx">>)
MeshB == Path(<<"Assets">>, <<"b", ".fbx">>)
ScriptA == Path(<<"Assets">>, <<"a", ".cs">>)
ScriptB == Path(<<"Assets">>, <<"b", ".cs">>)

\* The table after the assets a.mat, a.fbx and a.cs have been converted; the
\* b assets are not in it.
KnownAssets ==
    <<[key |-> MatA, val |-> Path(<<"materials">>, <<"a", ".tres">>)],
      [key |-> MeshA, val |-> Path(<<"meshes">>, <<"a", ".mesh">>)],
      [key |-> ScriptA, val |-> Path(<<"scripts">>, <<"a", ".gd">>)]>>

\* The components an object may carry: every tag of the type table and of the
\* dispatch chain, a tag neither knows ("Animator"), and the field values the
\* converters branch on.
ComponentUniverse ==
    {Component(t) : t \in {"Transform", "Camera", "Canvas", "RectTransform", "Image",
                           "Text", "Button", "ParticleSystem", "Animator"}}
    \cup {[Component("Light") EXCEPT !.LightType = k] : k \in {"Directional", "Spot", "Point"}}
    \cup {[Component("Rigidbody") EXCEPT !.IsKinematic = b] : b \in BOOLEAN}
    \cup {[Component("MeshFilter") EXCEPT !.Mesh = m] : m \in {NoPath, MeshA, MeshB}}
    \cup {[Component("MeshRenderer") EXCEPT !.Materials = m] :
             m \in {<<>>, <<MatA>>, <<MatB, MatA>>}}
    \cup {[Component("MonoBehaviour") EXCEPT !.Script = p] : p \in {ScriptA, ScriptB}}
    \cup {[Component("BoxCollider") EXCEPT !.Size = z] : z \in {<<>>, <<"2", "3", "4">>}}
    \cup {[Component("SphereCollider") EXCEPT !.Radius = "2.5"],
          [Component("CapsuleCollider") EXCEPT !.Radius = "0.25", !.Height = "3"]}

RECURSIVE SeqsUpTo(_, _)
SeqsUpTo(S, k) ==
    IF k = 0 THEN {<<>>}
    ELSE LET P == SeqsUpTo(S, k - 1) IN P \cup {Append(q, x) : q \in P, x \in S}

\* convert_game_object, lines 248-250: the node is created with the type
\* determine_node_type gives and the object's name.
ResolveType ==
    /\ pc = "resolve"
    /\ node' = Node(determine_node_type(game_object.Components), game_object.Name)
    /\ prev' = node
    /\ pc' = "dispatch"
    /\ UNCHANGED <<fs, visited, idx, prefabs, materials, meshes, animations, scripts,
                   asset_map, out, rewritten, started, game_object, ci, rwVars>>

\* convert_game_object, lines 254-255, one iteration: the next component goes
\* through convert_component.
DispatchComponent ==
    /\ pc = "dispatch"
    /\ ci < Len(game_object.Components)
    /\ prev' = node
    /\ node' = convert_component(game_object.Components[ci + 1], node, asset_map)
    /\ ci' = ci + 1
    /\ UNCHANGED <<fs, pc, visited, idx, prefabs, materials, meshes, animations, scripts,
                   asset_map, out, rewritten, started, game_object, rwVars>>

\* determine_node_type and convert_component called on one source object,
\* with the table empty or holding KnownAssets.
CompInit ==
    /\ game_object \in {[Name |-> <<"Object">>, Components |-> cs, Children |-> <<>>] :
                           cs \in SeqsUpTo(ComponentUniverse, MaxComps)}
    /\ asset_map \in {<<>>, KnownAssets}
    /\ pc = "resolve"
    /\ node = NoNode
    /\ prev = NoNode
    /\ ci = 0
    /\ fs = {}
    /\ visited = {}
    /\ idx = 1
    /\ prefabs = <<>>
    /\ materials = <<>>
    /\ meshes = <<>>
    /\ animations = <<>>
    /\ scripts = <<>>
    /\ out = {}
    /\ rewritten = {}
    /\ started = <<>>
    /\ RwIdle

CompNext ==
    \/ ResolveType
    \/ DispatchComponent

CompSpec == CompInit /\ [][CompNext]_vars


\* ---------------------------------------------- claims on CompSpec (C1 C4 C6 C9)

\* The indices of the components whose tag is a key of the type table.
Recognised(cs) == {i \in 1..Len(cs) : cs[i].Type \in DOMAIN unity_types_to_godot}

\* The mapping of the first recognised tag in source order, Node3D if none.
FirstRecognisedType(cs) ==
    IF Recognised(cs) = {} THEN "Node3D"
    ELSE unity_types_to_godot[
             cs[CHOOSE i \in Recognised(cs) : \A j \in Recognised(cs) : i <= j].Type]

\* A component whose converter assigns node.type.
Rewrites(c) == c.Type = "Light" \/ (c.Type = "Rigidbody" /\ c.IsKinematic)

\* Every component of the object has been through convert_component.
AllDispatched == pc = "dispatch" /\ ci = Len(game_object.Components)

\* The component convert_component was last called on.
LastComponent == game_object.Components[ci]

Dispatched(tags) == pc = "dispatch" /\ ci >= 1 /\ LastComponent.Type \in tags

\* C1 as stated: once every component has been dispatched, the node's type is
\* the mapping of the first recognised component, Node3D when there is none.
C1_TypeIsFirstRecognised ==
    AllDispatched => node.type = FirstRecognisedType(game_object.Components)

\* C1 amended: the type determine_node_type gives is the mapping of the first
\* recognised component (Node3D when there is none), and it is still the
\* node's type after the components dispatched so far unless one of them is a
\* Light or a Rigidbody with IsKinematic set.
C1_TypeIsFirstRecognisedUnlessRewritten ==
    (pc = "dispatch" /\ \A i \in 1..ci : ~Rewrites(game_object.Components[i]))
        => node.type = FirstRecognisedType(game_object.Components)

\* Two recognised components of different mapped types, an unrewritten node.
C1_Witness ==
    /\ AllDispatched
    /\ Len(game_object.Components) >= 2
    /\ Recognised(game_object.Components) = {1, 2}
    /\ unity_types_to_godot[game_object.Components[1].Type]
           # unity_types_to_godot[game_object.Components[2].Type]
    /\ \A i \in 1..ci : ~Rewrites(game_object.Components[i])
    /\ node.type = unity_types_to_godot[game_object.Components[1].Type]

\* The properties the last convert_component added.
Added == SubSeq(node.props, Len(prev.props) + 1, Len(node.props))

\* The last convert_component changed nothing but the end of the property list.
FrameKept ==
    /\ node.type = prev.type
    /\ node.name = prev.name
    /\ node.children = prev.children
    /\ Len(node.props) >= Len(prev.props)
    /\ SubSeq(node.props, 1, Len(prev.props)) = prev.props

\* The path is a key of the Reference Table.
Present(path) == \E i \in 1..Len(asset_map) : asset_map[i].key = path

\* The external-reference property called name that carries the target path
\* the table holds for the source path.
RefProperty(name, path) ==
    LET target == asset_map[CHOOSE i \in 1..Len(asset_map) : asset_map[i].key = path].val
    IN [name |-> name, kind |-> "ExtResource",
        value |-> <<"ExtResource(\"">> \o PathText(target) \o <<"\")">>]

\* C4: a MeshFilter, MeshRenderer or MonoBehaviour component adds nothing for
\* a referenced path the table does not hold and exactly one external-reference
\* property with the table's target path for one it holds; the rest of the
\* node is as it was.
C4_UnresolvedReferenceOmitted ==
    /\ Dispatched({"MeshFilter"}) =>
          /\ FrameKept
          /\ Added = IF Present(LastComponent.Mesh)
                     THEN <<RefProperty(<<"mesh">>, LastComponent.Mesh)>> ELSE <<>>
    /\ Dispatched({"MonoBehaviour"}) =>
          /\ FrameKept
          /\ Added = IF Present(LastComponent.Script)
                     THEN <<RefProperty(<<"script">>, LastComponent.Script)>> ELSE <<>>
    /\ Dispatched({"MeshRenderer"}) =>
          LET mats == LastComponent.Materials
              hits == {i \in 1..Len(mats) : Present(mats[i])}
          IN /\ FrameKept
             /\ Len(Added) = Cardinality(hits)
             /\ \A i \in hits :
                   Cardinality({k \in 1..Len(Added) :
                       Added[k] = RefProperty(<<"material_", IndexText(i - 1)>>, mats[i])}) = 1
             /\ \A i, j \in hits : i < j =>
                   \E k, l \in 1..Len(Added) :
                       /\ k < l
                       /\ Added[k].name = <<"material_", IndexText(i - 1)>>
                       /\ Added[l].name = <<"material_", IndexText(j - 1)>>

\* A MeshFilter whose mesh is not in the table left the node alone, and the
\* MeshRenderer after it got the one material the table holds, as material_1.
C4_Witness ==
    /\ pc = "dispatch"
    /\ ci = 2
    /\ asset_map = KnownAssets
    /\ game_object.Components[1].Type = "MeshFilter"
    /\ game_object.Components[1].Mesh = MeshB
    /\ game_object.Components[2].Type = "MeshRenderer"
    /\ game_object.Components[2].Materials = <<MatB, MatA>>
    /\ Len(node.props) = 1
    /\ node.props[1].name = <<"material_", "1">>
    /\ node.props[1].value = <<"ExtResource(\"", "materials", "/", "a", ".tres", "\")">>

Tokens(text) == {text[i] : i \in 1..Len(text)}

\* What each collider kind's shape literal names, and what only the other
\* kinds' literals name.
ShapeNames(kind) ==
    CASE kind = "BoxCollider" -> {"BoxShape3D", "size = Vector3("}
      [] kind = "SphereCollider" -> {"SphereShape3D", "radius = "}
      [] kind = "CapsuleCollider" -> {"CapsuleShape3D", "radius = ", ", height = "}

AllShapeNames ==
    {"BoxShape3D", "SphereShape3D", "CapsuleShape3D", "size = Vector3(", "radius = ",
     ", height = "}

\* The values the component gives for its kind's parameters.
ShapeValues(c) ==
    CASE c.Type = "BoxCollider" -> Tokens(c.Size)
      [] c.Type = "SphereCollider" -> {c.Radius} \ {None}
      [] c.Type = "CapsuleCollider" -> {c.Radius, c.Height} \ {None}

\* A shape child for the collider component c.
IsShapeChild(child, c) ==
    /\ child.type = "CollisionShape3D"
    /\ child.children = <<>>
    /\ Len(child.props) = 1
    /\ child.props[1].name = <<"shape">>
    /\ ShapeNames(c.Type) \subseteq Tokens(child.props[1].value)
    /\ Tokens(child.props[1].value) \cap (AllShapeNames \ ShapeNames(c.Type)) = {}
    /\ ShapeValues(c) \subseteq Tokens(child.props[1].value)

RewrittenType(c) ==
    IF c.Type = "Light"
    THEN IF c.LightType = "Directional" THEN "DirectionalLight3D"
         ELSE IF c.LightType = "Spot" THEN "SpotLight3D"
         ELSE "OmniLight3D"
    ELSE "AnimatableBody3D"

\* C9 as stated: after the dispatch the node's type is the one the last
\* rewriting component asks for (a Light by its light kind, a kinematic
\* Rigidbody AnimatableBody3D), the resolved type when no component rewrites.
C9_LastRewriteWins ==
    AllDispatched =>
        LET cs == game_object.Components
            R == {i \in 1..Len(cs) : Rewrites(cs[i])}
        IN node.type = IF R = {} THEN FirstRecognisedType(cs)
                       ELSE RewrittenType(cs[CHOOSE i \in R : \A j \in R : j <= i])


\* ------------------------------------------------ claims on Spec (C3 C7 C8 C10)

\* The inventory holds an entry under the bare name of every file of a
\* recognised extension.
InventoryComplete ==
    \A f \in fs :
        LET file == Basename(f.path)
            name == SplitextRoot(file)
        IN /\ EndsWith(file, ".prefab") => DictHas(prefabs, name)
           /\ EndsWith(file, ".mat") => DictHas(materials, name)
           /\ (EndsWith(file, ".fbx") \/ EndsWith(file, ".obj")) => DictHas(meshes, name)
           /\ EndsWith(file, ".anim") => DictHas(animations, name)
           /\ EndsWith(file, ".cs") => DictHas(scripts, name)

\* The table amap holds an entry for every inventoried material, mesh,
\* animation and script.
HoldsEveryAsset(amap) ==
    \A table \in {materials, meshes, animations, scripts} :
        \A i \in 1..Len(table) : \E j \in 1..Len(amap) : amap[j].key = table[i].val

InSubdirectory(d, name) == Head(d.path.dir) = name

\* C3: the inventory is complete before an asset converter has run; every
\* inventoried asset has its table entry before a scene or prefab object is
\* converted (at each call of convert_game_object); every scene and prefab
\* has been converted before the rewriter has touched a document.
C3_StagesOrdered ==
    /\ (asset_map # <<>> \/ out # {}) => InventoryComplete
    /\ (started # <<>> \/ \E d \in out : InSubdirectory(d, "scenes") \/ InSubdirectory(d, "prefabs"))
          => /\ InventoryComplete
             /\ HoldsEveryAsset(asset_map)
    /\ \A i \in 1..Len(started) : HoldsEveryAsset(started[i].assets)
    /\ rewritten # {} =>
          /\ \A f \in ScenesFound : \E d \in out : d.path = GodotScenePath(f)
          /\ \A i \in 1..Len(prefabs) :
                \E d \in out : d.path = Path(<<"prefabs">>, prefabs[i].key \o <<".tscn">>)

\* The rewriter has been through a scene of a project that has assets.
C3_Witness ==
    /\ asset_map # <<>>
    /\ \E d \in out : InSubdirectory(d, "scenes") /\ d.path \in rewritten

\* The kinds of asset: output subdirectory, source extensions, target extension.
AssetKinds ==
    {[dir |-> "materials", from |-> {".mat"}, to |-> ".tres"],
     [dir |-> "meshes", from |-> {".fbx", ".obj"}, to |-> ".mesh"],
     [dir |-> "animations", from |-> {".anim"}, to |-> ".anim"],
     [dir |-> "scripts", from |-> {".cs"}, to |-> ".gd"]}

GraphKinds ==
    {[dir |-> "scenes", from |-> {".unity"}, to |-> ".tscn"],
     [dir |-> "prefabs", from |-> {".prefab"}, to |-> ".tscn"]}

\* The source assets of a kind found in the source project.
SourceAssets(kind) == {f \in fs : \E e \in kind.from : EndsWith(Basename(f.path), e)}

\* <subdirectory>/<bare_name>.<target_ext>
ConvertedPath(kind, f) ==
    Path(<<kind.dir>>, SplitextRoot(Basename(f.path)) \o <<kind.to>>)

GraphDocuments(source) ==
    {d \in out :
        \/ \E f \in ScenesFound : f.path = source /\ d.path = GodotScenePath(f)
        \/ /\ EndsWith(Basename(source), ".prefab")
           /\ d.path = Path(<<"prefabs">>, SplitextRoot(Basename(source)) \o <<".tscn">>)}

\* C8 as stated: every call of convert_game_object completes without error and
\* leaves, under the parent, a node of the resolved type with the object's
\* name and its transform.
C8_ConvertGameObjectCompletes ==
    \A i \in 1..Len(started) :
        /\ pc # "error"
        /\ \E d \in GraphDocuments(started[i].source) :
              \E k \in 1..Len(d.root.children) :
                  /\ d.root.children[k].name = started[i].game_object.Name
                  /\ d.root.children[k].type
                         = determine_node_type(started[i].game_object.Components)
                  /\ \E j \in 1..Len(d.root.children[k].props) :
                         d.root.children[k].props[j].kind = "Transform"

IsColliderTag(tag) == tag \in {"BoxCollider", "SphereCollider", "CapsuleCollider"}

\* The node n has the shape of the source object: its collider components'
\* shape nodes first, then one node per source child, in the source order.
RECURSIVE Mirrors(_, _)
Mirrors(object, n) ==
    LET k == Cardinality({i \in 1..Len(object.Components) :
                             IsColliderTag(object.Components[i].Type)})
    IN /\ n.name = object.Name
       /\ Len(n.children) = k + Len(object.Children)
       /\ \A i \in 1..k : n.children[i].type = "CollisionShape3D"
       /\ \A i \in 1..Len(object.Children) : Mirrors(object.Children[i], n.children[k + i])

\* C10 as stated: the object graph conversion preserves the source tree's
\* shape: each source object converted has its node under its parent's node,
\* its children's nodes below it in the source order, after its shape nodes.
C10_TreeShapePreserved ==
    \A i \in 1..Len(started) :
        \E d \in GraphDocuments(started[i].source) :
            \E k \in 1..Len(d.root.children) :
                Mirrors(started[i].game_object, d.root.children[k])


\* The five inventory tables.
InventoryTables == <<prefabs, materials, meshes, animations, scripts>>

\* The tables that hold the path as a value.
TablesHolding(path) ==
    {t \in 1..Len(InventoryTables) : path \in DictVals(InventoryTables[t])}

\* Each source file is in at most one inventory table, and there under one
\* key; each key of asset_map is a path of exactly one table.
ClassifiedOnce ==
    /\ \A f \in fs : Cardinality(TablesHolding(f.path)) <= 1
    /\ \A t \in 1..Len(InventoryTables) :
          \A i, j \in 1..Len(InventoryTables[t]) :
              InventoryTables[t][i].val = InventoryTables[t][j].val => i = j
    /\ \A k \in DictKeys(asset_map) : Cardinality(TablesHolding(k)) = 1

\* A step in which a converter loop (material, mesh, animation, script,
\* prefab) completes one call.
ConverterCall ==
    /\ pc \in {"materials", "meshes", "animations", "scripts", "prefabs"}
    /\ idx' = idx + 1

\* Every entry of asset_map is still there, unchanged, after the step; a
\* converter call writes a key asset_map did not hold.
WrittenOnce ==
    /\ \A i \in 1..Len(asset_map) :
          /\ i <= Len(asset_map')
          /\ asset_map'[i] = asset_map[i]
    /\ ConverterCall =>
          /\ Len(asset_map') = Len(asset_map) + 1
          /\ asset_map'[Len(asset_map')].key \notin DictKeys(asset_map)

\* C11: during one run every key of asset_map is written exactly once: each
\* source file is classified into at most one inventory table, no two
\* converter calls write the same source path, and an entry once written is
\* never overwritten or removed before the run ends.
C11_KeysWrittenOnce == []ClassifiedOnce /\ [][WrittenOnce]_vars

\* The run has ended with asset_map holding the paths of two source files of
\* the same bare name, written by two different converters.
C11_Witness ==
    /\ pc = "done"
    /\ \E i, j \in 1..Len(asset_map) :
          /\ i < j
          /\ SplitextRoot(Basename(asset_map[i].key)) = SplitextRoot(Basename(asset_map[j].key))
          /\ asset_map[i].val.dir # asset_map[j].val.dir


\* ------------------------------------------------- rewriting one document

\* Source assets whose bare names carry dots: a, a.mat, a.gd, and the hidden
\* files .mat and .cs (bare name: the whole file name).
RwNames == {<<"a">>, <<"a", ".mat">>, <<"a", ".gd">>}

RwFiles ==
    {SourceFile(Path(<<"Assets">>, n \o <<e>>), <<"a", ".png">>, <<>>) :
        n \in RwNames \cup {<<>>}, e \in {".mat", ".cs"}}
    \cup {SourceFile(Path(<<"Assets">>, <<"a", e>>), <<>>, <<>>) : e \in {".fbx", ".anim"}}

\* The tokens a document's text is made of.
RwTokens == {"a", ".mat", ".cs", ".gd"}

\* The asset converters have returned: the document is handed to the
\* rewriter (no scene or prefab is converted in between).
RwAdvance ==
    /\ pc \in {"analyze", "materials", "meshes", "animations", "scripts"}
    /\ LoopDone
    /\ pc' = IF pc = "scripts" THEN "references" ELSE StageAfter(pc)
    /\ idx' = 1
    /\ visited' = {}
    /\ UNCHANGED <<fs, prefabs, materials, meshes, animations, scripts, asset_map, out,
                   rewritten, started, compVars, rwVars>>

\* update_file_references on the document: read, substitute, write back.
Rewrite ==
    /\ pc = "references"
    /\ passes < MaxPasses
    /\ content' = update_file_references(content, asset_map)
    /\ content1' = IF passes = 0 THEN content' ELSE content1
    /\ passes' = passes + 1
    /\ UNCHANGED <<runVars, compVars, content0>>

\* A .tscn or .tres document of any text within the bounds, and the table of a
\* run over a project of RwFiles.
RwInit ==
    /\ fs \in {F \in SubsetsUpTo(RwFiles, MaxRwFiles) : IsProject(F)}
    /\ content \in SeqsUpTo(RwTokens, MaxTextLen)
    /\ content0 = content
    /\ content1 = content
    /\ passes = 0
    /\ RunStart
    /\ CompIdle

RwNext ==
    \/ \E f \in fs : AnalyzeFile(f)
    \/ ConvertMaterial
    \/ ConvertMesh
    \/ ConvertAnimation
    \/ ConvertScript
    \/ RwAdvance
    \/ Rewrite

RwSpec == RwInit /\ [][RwNext]_vars

\* --------------------------------------------------- claims on RwSpec (C2 C5)

\* C2 as stated: a second application of update_file_references with the same
\* table leaves the text of the first application unchanged.
C2_RewriterIdempotent == passes = 2 => content = content1

\* Every entry of the table replaces a file name by one of the same length, so
\* that a place of the text before the pass is the same place after it.
LengthKept ==
    \A i \in 1..Len(asset_map) :
        Len(Basename(asset_map[i].key)) = Len(Basename(asset_map[i].val))

\* C5 as stated, for a .tscn or .tres document: after the pass, every place
\* where the bare file name of a table entry's source path stood before the
\* pass holds the bare file name of the entry's target path.
C5_EveryOccurrenceRewritten ==
    (passes >= 1 /\ LengthKept) =>
        \A i \in 1..Len(asset_map) : \A k \in 1..Len(content0) :
            OccursAt(content0, Basename(asset_map[i].key), k)
                => OccursAt(content1, Basename(asset_map[i].val), k)


====
